---- MODULE Spec2Model ----
(***************************************************************************)
(* A model of AIRecommendationService (services/aiRecommendations.ts) and  *)
(* of the App component in front of it (App.tsx).                          *)
(*                                                                         *)
(* Text is a sequence of tokens.  A token is a string standing for a piece *)
(* of text that the code never splits: a JSON punctuation character, a     *)
(* word, a whole fixed paragraph of the prompt, the three-backtick fence.  *)
(* API keys are sequences of single characters, since the code measures    *)
(* their length and searches them for a substring; so are the strings of   *)
(* the form when validateCompanyUrlMatch takes them apart.                 *)
(*                                                                         *)
(* Spec is one request of the service, SpecConc two requests interleaved,  *)
(* SpecPure the two pure functions on their own, SpecApp the App with the  *)
(* service behind it.                                                      *)
(***************************************************************************)
EXTENDS Integers, Sequences, FiniteSets, TLC

VARIABLES env, openai, constructed, req, pure, app

vars == <<env, openai, constructed, req, pure, app>>

\* what a step of a request leaves alone
others == <<pure>>

----------------------------------------------------------------------------
(* Bounds of the model.                                                    *)

\* the longest unitMetrics list a provider response carries
MaxMetrics == 5
\* the longest conversationStarters list a provider response carries
MaxStarters == 3
\* how far an enumerated API key's length may lie from the threshold
KeySlack == 1

----------------------------------------------------------------------------
(* Tokens.                                                                 *)

DQ == "\""
\* the three-backtick code fence
Fence == "<fence>"
NL == "<nl>"
SP == "<sp>"
Whitespace == {NL, SP, " "}

Flags == {"ppa", "genAI", "cloudCostConcerns"}

RECURSIVE Rep(_, _)
Rep(c, n) == IF n <= 0 THEN <<>> ELSE <<c>> \o Rep(c, n - 1)

RECURSIVE Join(_, _)
\* Array.prototype.join on a list of one-token strings
Join(list, sep) ==
    IF list = <<>> THEN <<>>
    ELSE IF Len(list) = 1 THEN <<list[1]>>
    ELSE <<list[1], sep>> \o Join(Tail(list), sep)

\* String.prototype.includes: needle occurs as a contiguous run of s
Includes(s, needle) ==
    \E i \in 0..(Len(s) - Len(needle)) :
        \A j \in 1..Len(needle) : s[i + j] = needle[j]

RECURSIVE TrimStart(_)
TrimStart(s) ==
    IF s # <<>> /\ Head(s) \in Whitespace THEN TrimStart(Tail(s)) ELSE s

RECURSIVE TrimEnd(_)
TrimEnd(s) ==
    IF s # <<>> /\ s[Len(s)] \in Whitespace
    THEN TrimEnd(SubSeq(s, 1, Len(s) - 1)) ELSE s

\* String.prototype.trim
Trim(s) == TrimEnd(TrimStart(s))

----------------------------------------------------------------------------
(* JavaScript values, as JSON.parse produces them.                         *)

Undefined == [t |-> "undefined"]
Null == [t |-> "null"]
Bool(b) == [t |-> "bool", b |-> b]
Num(n) == [t |-> "num", n |-> n]
Str(s) == [t |-> "str", s |-> s]
Arr(a) == [t |-> "arr", a |-> a]
Obj(o) == [t |-> "obj", o |-> o]
Member(k, v) == [k |-> k, v |-> v]

\* o with key k set to v: a repeated key keeps its place and takes the
\* later value, as in a JavaScript object
RECURSIVE SetMember(_, _, _)
SetMember(o, k, v) ==
    IF o = <<>> THEN <<Member(k, v)>>
    ELSE IF Head(o).k = k THEN <<Member(k, v)>> \o Tail(o)
    ELSE <<Head(o)>> \o SetMember(Tail(o), k, v)

HasKey(v, k) == v.t = "obj" /\ \E i \in 1..Len(v.o) : v.o[i].k = k

\* the property read v.k, for v other than null and undefined
GetProp(v, k) ==
    IF HasKey(v, k)
    THEN (CHOOSE m \in {v.o[i] : i \in 1..Len(v.o)} : m.k = k).v
    ELSE Undefined

\* ToBoolean
Truthy(v) ==
    CASE v.t = "undefined" -> FALSE
      [] v.t = "null" -> FALSE
      [] v.t = "bool" -> v.b
      [] v.t = "num" -> v.n # 0
      [] v.t = "str" -> v.s # <<>>
      [] OTHER -> TRUE

----------------------------------------------------------------------------
(* JSON.parse over tokens.  The grammar: null, true, false, the number 0   *)
(* or 1, a string (a quote, any tokens but a quote or a line break, a      *)
(* quote), an array, an object; whitespace between tokens.                 *)

ParseFail == [ok |-> FALSE, val |-> Undefined, rest |-> <<>>]
ParseOk(v, rest) == [ok |-> TRUE, val |-> v, rest |-> rest]

RECURSIVE ParseStringBody(_, _)
\* s follows an opening quote; acc is the content read so far
ParseStringBody(s, acc) ==
    IF s = <<>> THEN ParseFail
    ELSE IF Head(s) = DQ THEN ParseOk(Str(acc), Tail(s))
    ELSE IF Head(s) = NL THEN ParseFail
    ELSE ParseStringBody(Tail(s), Append(acc, Head(s)))

RECURSIVE ParseValue(_)
RECURSIVE ParseElems(_, _)
RECURSIVE ParseMembers(_, _)

ParseValue(text) ==
    LET s == TrimStart(text) IN
    IF s = <<>> THEN ParseFail
    ELSE CASE Head(s) = "null" -> ParseOk(Null, Tail(s))
           [] Head(s) = "true" -> ParseOk(Bool(TRUE), Tail(s))
           [] Head(s) = "false" -> ParseOk(Bool(FALSE), Tail(s))
           [] Head(s) = "0" -> ParseOk(Num(0), Tail(s))
           [] Head(s) = "1" -> ParseOk(Num(1), Tail(s))
           [] Head(s) = DQ -> ParseStringBody(Tail(s), <<>>)
           [] Head(s) = "[" ->
                LET b == TrimStart(Tail(s)) IN
                IF b # <<>> /\ Head(b) = "]" THEN ParseOk(Arr(<<>>), Tail(b))
                ELSE ParseElems(b, <<>>)
           [] Head(s) = "{" ->
                LET b == TrimStart(Tail(s)) IN
                IF b # <<>> /\ Head(b) = "}" THEN ParseOk(Obj(<<>>), Tail(b))
                ELSE ParseMembers(b, <<>>)
           [] OTHER -> ParseFail

\* s stands at an element of an array; acc holds the elements before it
ParseElems(s, acc) ==
    LET r == ParseValue(s) IN
    IF ~r.ok THEN ParseFail
    ELSE LET b == TrimStart(r.rest) IN
         IF b = <<>> THEN ParseFail
         ELSE IF Head(b) = "," THEN ParseElems(Tail(b), Append(acc, r.val))
         ELSE IF Head(b) = "]" THEN ParseOk(Arr(Append(acc, r.val)), Tail(b))
         ELSE ParseFail

\* s stands at a member of an object; acc holds the members before it
ParseMembers(s, acc) ==
    LET a == TrimStart(s) IN
    IF a = <<>> \/ Head(a) # DQ THEN ParseFail
    ELSE LET k == ParseStringBody(Tail(a), <<>>) IN
         IF ~k.ok THEN ParseFail
         ELSE LET c == TrimStart(k.rest) IN
              IF c = <<>> \/ Head(c) # ":" THEN ParseFail
              ELSE LET r == ParseValue(Tail(c)) IN
                   IF ~r.ok THEN ParseFail
                   ELSE LET b == TrimStart(r.rest)
                            o == SetMember(acc, k.val.s, r.val)
                        IN IF b = <<>> THEN ParseFail
                           ELSE IF Head(b) = "," THEN ParseMembers(Tail(b), o)
                           ELSE IF Head(b) = "}" THEN ParseOk(Obj(o), Tail(b))
                           ELSE ParseFail

\* JSON.parse: ok is FALSE where it throws a SyntaxError
JSONParse(text) ==
    LET r == ParseValue(text) IN
    IF r.ok /\ TrimStart(r.rest) = <<>> THEN ParseOk(r.val, <<>>) ELSE ParseFail

RECURSIVE Stringify(_)
RECURSIVE StringifyElems(_)
RECURSIVE StringifyMembers(_)

\* JSON.stringify, the text a provider writes for a value
Stringify(v) ==
    CASE v.t = "null" -> <<"null">>
      [] v.t = "bool" -> IF v.b THEN <<"true">> ELSE <<"false">>
      [] v.t = "num" -> IF v.n = 0 THEN <<"0">> ELSE <<"1">>
      [] v.t = "str" -> <<DQ>> \o v.s \o <<DQ>>
      [] v.t = "arr" -> <<"[">> \o StringifyElems(v.a) \o <<"]">>
      [] v.t = "obj" -> <<"{">> \o StringifyMembers(v.o) \o <<"}">>

StringifyElems(a) ==
    IF a = <<>> THEN <<>>
    ELSE IF Len(a) = 1 THEN Stringify(a[1])
    ELSE Stringify(a[1]) \o <<",">> \o StringifyElems(Tail(a))

StringifyMembers(o) ==
    IF o = <<>> THEN <<>>
    ELSE LET m == <<DQ>> \o o[1].k \o <<DQ, ":">> \o Stringify(o[1].v) IN
         IF Len(o) = 1 THEN m ELSE m \o <<",">> \o StringifyMembers(Tail(o))

----------------------------------------------------------------------------
(* Credentials.  A key is the value of an environment entry: undefined or  *)
(* a string, here a sequence of characters (SP is the space character).    *)

MinKeyLen == 20
Placeholder == <<"y", "o", "u", "r", "_">>

NoKey == [defined |-> FALSE, chars |-> <<>>]
Key(chars) == [defined |-> TRUE, chars |-> chars]

isValidApiKeyLax(key) ==
    /\ key.defined
    /\ key.chars # <<>>
    /\ Trim(key.chars) # <<>>
    /\ Len(key.chars) > MinKeyLen

\* key && key.trim() !== '' && !key.includes('your_') && key.length > 20
isValidApiKey(key) ==
    /\ key.defined
    /\ key.chars # <<>>
    /\ Trim(key.chars) # <<>>
    /\ ~Includes(key.chars, Placeholder)
    /\ Len(key.chars) > MinKeyLen

\* the values the primary credential is drawn from: unset, empty, blank,
\* a placeholder longer than the threshold, and keys around the threshold
PrimaryKeys ==
    {NoKey, Key(<<>>), Key(Rep(SP, MinKeyLen + 1)),
     Key(Placeholder \o Rep("x", MinKeyLen)),
     Key(Rep("k", MinKeyLen - 4) \o Placeholder)}
    \cup {Key(Rep("k", n)) :
            n \in (MinKeyLen - KeySlack)..(MinKeyLen + KeySlack)}

\* the values each string of the secondary credential pair is drawn from
SecondaryKeys ==
    {NoKey, Key(Placeholder \o Rep("x", MinKeyLen)),
     Key(Rep("a", MinKeyLen + 1))}

----------------------------------------------------------------------------
(* The data of a request.                                                  *)

Contexts ==
    [companyName : {"Acme"}, websiteUrl : {"", "https://acme.com"},
     email : {""}, ppa : BOOLEAN, genAI : BOOLEAN,
     cloudCostConcerns : BOOLEAN]

NoContext ==
    [companyName |-> "", websiteUrl |-> "", email |-> "", ppa |-> FALSE,
     genAI |-> FALSE, cloudCostConcerns |-> FALSE]

\* CompanyIntelligence records the gatherer may return
Intelligences ==
    {[companyName |-> "Acme", industry |-> "SaaS",
      businessModel |-> "subscription", techStack |-> <<"AWS", "React">>,
      recentNews |-> <<"Series B">>, cloudUsageIndicators |-> <<>>,
      stockPerformance |-> [defined |-> FALSE, summary |-> ""]],
     [companyName |-> "Acme", industry |-> "SaaS",
      businessModel |-> "subscription", techStack |-> <<"GCP">>,
      recentNews |-> <<>>, cloudUsageIndicators |-> <<"GPU fleet">>,
      stockPerformance |-> [defined |-> TRUE, summary |-> "flat"]],
     [companyName |-> "Acme Inc", industry |-> "Retail",
      businessModel |-> "marketplace", techStack |-> <<>>,
      recentNews |-> <<"IPO", "Layoffs">>,
      cloudUsageIndicators |-> <<"Kubernetes">>,
      stockPerformance |-> [defined |-> TRUE, summary |-> "up 3%"]]}

NoIntelligence ==
    [companyName |-> "", industry |-> "", businessModel |-> "",
     techStack |-> <<>>, recentNews |-> <<>>, cloudUsageIndicators |-> <<>>,
     stockPerformance |-> [defined |-> FALSE, summary |-> ""]]

\* an Error object: its class and its message, as text
Error(name, message) == [name |-> name, message |-> message]
NoError == Error("none", <<>>)

\* what WebResearchService.gatherCompanyIntelligence may throw
GatherErrors ==
    {Error("Error", <<"Failed to gather company intelligence">>),
     Error("Error", <<"Search", "API key", "rejected">>)}

\* what BedrockService.invokeClaude may throw
BedrockErrors ==
    {Error("Error", <<"Bedrock request timed out">>),
     Error("AccessDeniedException", <<"credential rejected">>)}

\* what openai.chat.completions.create may throw
PrimaryErrors == {Error("APIError", <<"429 rate limit">>)}

\* what BedrockService.invokeClaude may return
BedrockTexts == {<<"Acme runs bursty workloads.">>}

----------------------------------------------------------------------------
(* buildEnhancedPrompt.                                                    *)

SchemaIntro ==
    "Please return your response as a valid JSON object with this exact structure:"
SchemaOutro == "Make all recommendations highly specific to"

JStr(s) == <<DQ>> \o s \o <<DQ>>
YesNo(b) == IF b THEN "Yes" ELSE "No"

PpaLine ==
    JStr(<<"ppa">>) \o <<":", SP, "[">> \o JStr(<<"PPA question 1">>)
    \o <<",", SP>> \o JStr(<<"PPA question 2">>) \o <<",", SP>>
    \o JStr(<<"PPA question 3">>) \o <<"]", ",">>

GenAILine ==
    JStr(<<"genAI">>) \o <<":", SP, "[">> \o JStr(<<"GenAI question 1">>)
    \o <<",", SP>> \o JStr(<<"GenAI question 2">>) \o <<",", SP>>
    \o JStr(<<"GenAI question 3">>) \o <<"]", ",">>

CloudLine ==
    JStr(<<"cloudCostConcerns">>) \o <<":", SP, "[">>
    \o JStr(<<"Cost concern 1">>) \o <<",", SP>>
    \o JStr(<<"Cost concern 2">>) \o <<",", SP>>
    \o JStr(<<"Cost concern 3">>) \o <<"]">>

ConditionalInsightsSchemaCoupled(context) ==
    JStr(<<"conditionalInsights">>) \o <<":", SP, "{", NL, SP>>
    \o (IF context.ppa THEN PpaLine ELSE <<>>) \o <<NL, SP>>
    \o (IF context.ppa THEN GenAILine ELSE <<>>) \o <<NL, SP>>
    \o (IF context.cloudCostConcerns THEN CloudLine ELSE <<>>)
    \o <<NL, SP, "}">>

\* lines 126-130: the conditionalInsights member of the schema
ConditionalInsightsSchema(context) ==
    JStr(<<"conditionalInsights">>) \o <<":", SP, "{", NL, SP>>
    \o (IF context.ppa THEN PpaLine ELSE <<>>) \o <<NL, SP>>
    \o (IF context.genAI THEN GenAILine ELSE <<>>) \o <<NL, SP>>
    \o (IF context.cloudCostConcerns THEN CloudLine ELSE <<>>)
    \o <<NL, SP, "}">>

\* lines 114-131: the schema specification
SchemaText(context) ==
    <<"{", NL, SP>> \o JStr(<<"unitMetrics">>) \o <<":", SP, "[", NL, SP, "{", NL, SP>>
    \o JStr(<<"title">>) \o <<":", SP>>
    \o JStr(<<"Cost per [specific unit for", context.companyName, "]">>)
    \o <<",", NL, SP>> \o JStr(<<"description">>) \o <<":", SP>>
    \o JStr(<<"Detailed explanation of why this metric matters">>)
    \o <<NL, SP, "}", NL, SP, "]", ",", NL, SP>>
    \o JStr(<<"conversationStarters">>) \o <<":", SP, "[", NL, SP>>
    \o JStr(<<"Strategic question 1 for", context.companyName>>) \o <<",", NL, SP>>
    \o JStr(<<"Strategic question 2 for", context.companyName>>) \o <<",", NL, SP>>
    \o JStr(<<"Strategic question 3 for", context.companyName>>)
    \o <<NL, SP, "]", ",", NL, SP>>
    \o ConditionalInsightsSchema(context) \o <<NL, "}">>

\* lines 96-109: one instruction paragraph per flag that is true
ConditionalParagraphs(context) ==
    (IF context.ppa
     THEN <<NL, "- **PPA Discussion Starters**: 3 strategic questions for",
            context.companyName>> ELSE <<>>)
    \o (IF context.genAI
        THEN <<NL, "- **GenAI-Specific FinOps Insights**: 3 strategic questions for",
               context.companyName>> ELSE <<>>)
    \o (IF context.cloudCostConcerns
        THEN <<NL, "- **Cloud Cost Risk Signals**: 3 strategic questions for",
               context.companyName>> ELSE <<>>)

buildEnhancedPrompt(context, intelligence, industryAnalysis) ==
    <<"You are a FinOps strategy assistant", NL, NL, "Company Information:", NL,
      "- Company Name:", context.companyName, NL, "- Website:",
      IF context.websiteUrl # "" THEN context.websiteUrl ELSE "Not provided", NL,
      "- Industry:", intelligence.industry, NL,
      "- Business Model:", intelligence.businessModel, NL, "- Tech Stack:">>
    \o Join(intelligence.techStack, ", ")
    \o <<NL, NL, "Recent Company Intelligence:", NL, "- Recent News:">>
    \o Join(intelligence.recentNews, "; ")
    \o <<NL, "- Cloud Usage Patterns:">>
    \o Join(intelligence.cloudUsageIndicators, "; ") \o <<NL>>
    \o (IF intelligence.stockPerformance.defined
        THEN <<"- Stock Performance:", intelligence.stockPerformance.summary>>
        ELSE <<>>)
    \o <<NL, NL, "Industry Analysis:", NL>> \o industryAnalysis
    \o <<NL, NL, "Focus Areas Selected:", NL,
         "- Private Pricing Agreement (PPA):", YesNo(context.ppa), NL,
         "- Generative AI:", YesNo(context.genAI), NL,
         "- Cloud Cost Concerns:", YesNo(context.cloudCostConcerns), NL, NL,
         "Please provide a structured response with the following sections:",
         NL, NL, "1. **Unit Cost Metrics (4-5 recommendations)**",
         context.companyName, NL, NL,
         "2. **FinOps Conversation Starters (3 questions)**",
         context.companyName, NL, NL,
         "3. **Conditional Insights (only if applicable)**">>
    \o ConditionalParagraphs(context)
    \o <<NL, NL, SchemaIntro, NL>> \o SchemaText(context)
    \o <<NL, NL, SchemaOutro, context.companyName>>

----------------------------------------------------------------------------
(* getFallbackRecommendations and the fallback sentence of                 *)
(* getIndustryAnalysis.                                                    *)

K(name) == <<name>>

FallbackMetric(companyName, what) ==
    Obj(<<Member(K("title"), Str(<<"Cost per", companyName, what>>)),
          Member(K("description"), Str(<<"Track the cost of", what, "at", companyName>>))>>)

FallbackInsights(companyName, topic) ==
    Arr(<<Str(<<"How might", companyName, "approach", topic>>),
          Str(<<"What is the strategy of", companyName, "for", topic>>),
          Str(<<"How does", companyName, "measure", topic>>)>>)

FallbackUnitMetricsShort(companyName) ==
    Arr(<<FallbackMetric(companyName, "customer transaction"),
          FallbackMetric(companyName, "service delivery"),
          FallbackMetric(companyName, "customer acquisition"),
          FallbackMetric(companyName, "business outcome")>>)

\* lines 231-252
FallbackUnitMetrics(companyName) ==
    Arr(<<FallbackMetric(companyName, "customer transaction"),
          FallbackMetric(companyName, "service delivery"),
          FallbackMetric(companyName, "customer acquisition"),
          FallbackMetric(companyName, "business outcome"),
          FallbackMetric(companyName, "customer success milestone")>>)

\* lines 253-257
FallbackStarters(companyName) ==
    Arr(<<Str(<<"How does", companyName, "ensure costs scale with growth?">>),
          Str(<<"Are your development teams at", companyName, "empowered?">>),
          Str(<<"Would unit cost metrics help", companyName, "?">>)>>)

FallbackConditionalInsightsEager(context) ==
    <<Member(K("ppa"), IF context.ppa
                       THEN FallbackInsights(context.companyName, "committed spend")
                       ELSE Arr(<<>>)),
      Member(K("genAI"), IF context.genAI
                         THEN FallbackInsights(context.companyName, "GPU workloads")
                         ELSE Arr(<<>>)),
      Member(K("cloudCostConcerns"),
             IF context.cloudCostConcerns
             THEN FallbackInsights(context.companyName, "cost overruns")
             ELSE Arr(<<>>))>>

\* lines 258-284: the mapping starts empty and gains a key per selected flag
FallbackConditionalInsights(context) ==
    LET name == context.companyName
        base == <<>>
        withPpa ==
            IF context.ppa
            THEN SetMember(base, K("ppa"), FallbackInsights(name, "committed spend"))
            ELSE base
        withGenAI ==
            IF context.genAI
            THEN SetMember(withPpa, K("genAI"), FallbackInsights(name, "GPU workloads"))
            ELSE withPpa
        withCloud ==
            IF context.cloudCostConcerns
            THEN SetMember(withGenAI, K("cloudCostConcerns"),
                           FallbackInsights(name, "cost overruns"))
            ELSE withGenAI
    IN withCloud

getFallbackRecommendations(context) ==
    Obj(<<Member(K("unitMetrics"), FallbackUnitMetrics(context.companyName)),
          Member(K("conversationStarters"), FallbackStarters(context.companyName)),
          Member(K("conditionalInsights"), Obj(FallbackConditionalInsights(context)))>>)

IndustryFallbackVerbose(intelligence) ==
    <<"Based on", intelligence.companyName, "'s", intelligence.industry,
      "industry focus and", intelligence.businessModel,
      "business model, they likely have significant cloud infrastructure needs",
      "using">> \o Join(intelligence.techStack, ", ")

\* line 306: the sentence returned when the secondary provider fails
IndustryFallback(intelligence) ==
    <<"Based on", intelligence.companyName, "'s", intelligence.industry,
      "industry focus and", intelligence.businessModel,
      "business model, they likely have significant cloud infrastructure needs">>

----------------------------------------------------------------------------
(* What the primary provider may answer.                                   *)

ProviderMetric ==
    Obj(<<Member(K("title"), Str(<<"Cost per order">>)),
          Member(K("description"), Str(<<"Why it matters">>))>>)

ProviderInsights(flags, n) ==
    LET a == IF "ppa" \in flags
             THEN <<Member(K("ppa"), Arr(Rep(Str(<<"PPA question">>), n)))>>
             ELSE <<>>
        b == IF "genAI" \in flags
             THEN <<Member(K("genAI"), Arr(Rep(Str(<<"GenAI question">>), n)))>>
             ELSE <<>>
        c == IF "cloudCostConcerns" \in flags
             THEN <<Member(K("cloudCostConcerns"), Arr(Rep(Str(<<"Cost concern">>), n)))>>
             ELSE <<>>
    IN Obj(a \o b \o c)

ProviderRecommendation(nMetrics, nStarters, flags, nInsights) ==
    Obj(<<Member(K("unitMetrics"), Arr(Rep(ProviderMetric, nMetrics))),
          Member(K("conversationStarters"), Arr(Rep(Str(<<"Question">>), nStarters))),
          Member(K("conditionalInsights"), ProviderInsights(flags, nInsights))>>)

\* answers of the requested shape, with list lengths around the requested
ShapedValues ==
    {ProviderRecommendation(m, s, {}, 3) : m \in 3..MaxMetrics, s \in 2..MaxStarters}
    \cup {ProviderRecommendation(4, 3, f, 3) : f \in SUBSET Flags}
    \cup {ProviderRecommendation(4, 3, Flags, n) : n \in {2, 4}}

WithBoth(unitMetrics, conversationStarters) ==
    Obj(<<Member(K("unitMetrics"), unitMetrics),
          Member(K("conversationStarters"), conversationStarters)>>)

\* answers of other shapes
OddValues ==
    {Null, Num(0), Num(1), Bool(TRUE), Str(<<"Sorry">>), Arr(<<>>), Obj(<<>>),
     Obj(<<Member(K("unitMetrics"), Arr(<<ProviderMetric>>))>>),
     Obj(<<Member(K("conversationStarters"), Arr(<<Str(<<"Question">>)>>))>>),
     WithBoth(Arr(<<>>), Arr(<<>>)),
     WithBoth(Null, Arr(<<Str(<<"Question">>)>>)),
     WithBoth(Num(0), Arr(<<Str(<<"Question">>)>>)),
     WithBoth(Arr(<<ProviderMetric>>), Str(<<>>)),
     WithBoth(Arr(<<ProviderMetric>>), Bool(FALSE)),
     WithBoth(Num(1), Str(<<"Question">>)),
     WithBoth(Arr(<<ProviderMetric>>), Arr(<<Str(<<"See", Fence, "below">>)>>))}

Fenced(text) == <<Fence, "json", NL>> \o text \o <<NL, Fence>>

\* the texts a completion may carry as its content
ContentTexts ==
    {Stringify(v) : v \in ShapedValues \cup OddValues}
    \cup {Fenced(Stringify(v)) :
            v \in {ProviderRecommendation(4, 3, {"ppa"}, 3), Null, Obj(<<>>),
                   WithBoth(Arr(<<ProviderMetric>>),
                            Arr(<<Str(<<"See", Fence, "below">>)>>))}}
    \cup {<<Fence, NL>> \o Stringify(ProviderRecommendation(5, 3, {}, 3)) \o <<Fence>>,
          <<SP, NL>> \o Stringify(ProviderRecommendation(4, 3, {"genAI"}, 3)) \o <<NL>>,
          <<>>, <<SP>>, <<"Here are your recommendations:">>,
          <<"Please provide your OpenAI", "API key">>,
          <<"Here you go:", NL>> \o Fenced(Stringify(Obj(<<>>))),
          <<"{">> \o JStr(K("unitMetrics")) \o <<":", "[", "]", ",", "}">>,
          <<"{">> \o JStr(K("unitMetrics")) \o <<":", "[">>,
          <<Fence, "json", NL, Fence>>}

\* a chat completion: choices[0]?.message?.content
Completions ==
    {[shape |-> s, text |-> <<>>] : s \in {"noChoice", "noMessage", "nullContent"}}
    \cup {[shape |-> "content", text |-> t] : t \in ContentTexts}

\* completion.choices[0]?.message?.content
ContentOf(completion) ==
    [defined |-> completion.shape = "content", text |-> completion.text]

NoResponse == [defined |-> FALSE, text |-> <<>>]

----------------------------------------------------------------------------
(* generateRecommendations: the state of a request and its steps.          *)

Req == {"r1", "r2"}

\* pc: "off" (never called), "idle" (not called yet), "gathering",
\* "analyzing", "completing" (suspended at an await), "resolved" (returned
\* result), "rejected" (threw error)
IdleRequest ==
    [pc |-> "idle", context |-> NoContext, hasValidAWS |-> FALSE,
     intelligence |-> NoIntelligence, industryAnalysis |-> <<>>,
     prompt |-> <<>>, response |-> NoResponse,
     parsed |-> [ok |-> FALSE, val |-> Undefined],
     result |-> Undefined, error |-> NoError, trace |-> <<>>, console |-> <<>>]

Log(q, level, tag, text) ==
    [q EXCEPT !.console = Append(@, [level |-> level, tag |-> tag, text |-> text])]

CatchBlockFallback(q, error) ==
    [Log(q, "error", "Error generating AI recommendations:", error.message)
        EXCEPT !.pc = "resolved",
               !.result = getFallbackRecommendations(q.context),
               !.trace = Append(@, "fallback.call")]

\* lines 220-224: log the error and throw it again
CatchBlock(q, error) ==
    [Log(q, "error", "Error generating AI recommendations:", error.message)
        EXCEPT !.pc = "rejected", !.error = error]

\* line 153
CredentialError ==
    Error("Error",
          <<"OpenAI", "API key", "is invalid or missing. Please check your .env.local file. Current key:",
            IF env.VITE_OPENAI_API_KEY.defined /\ env.VITE_OPENAI_API_KEY.chars # <<>>
            THEN "Set but invalid" ELSE "Not set">>)

\* line 40
GetOpenAIError ==
    Error("Error",
          <<"Please configure a valid OpenAI", "API key", "in your .env.local file.">>)

BeginRequestEitherKey(q, context) ==
    LET hasValidOpenAI == isValidApiKey(env.VITE_OPENAI_API_KEY)
        hasValidAWS == \/ isValidApiKey(env.VITE_AWS_ACCESS_KEY_ID)
                       \/ isValidApiKey(env.VITE_AWS_SECRET_ACCESS_KEY)
        q1 == [q EXCEPT !.context = context, !.hasValidAWS = hasValidAWS]
        q2 == IF hasValidAWS THEN q1
              ELSE Log(q1, "warn", "AWS credentials invalid, proceeding with OpenAI only", <<>>)
    IN IF ~hasValidOpenAI THEN CatchBlock(q1, CredentialError)
       ELSE [q2 EXCEPT !.pc = "gathering", !.trace = Append(@, "gather.call")]

\* lines 139-165: the credential checks and the call of the gatherer
BeginRequest(q, context) ==
    LET hasValidOpenAI == isValidApiKey(env.VITE_OPENAI_API_KEY)
        hasValidAWS == /\ isValidApiKey(env.VITE_AWS_ACCESS_KEY_ID)
                       /\ isValidApiKey(env.VITE_AWS_SECRET_ACCESS_KEY)
        q1 == [q EXCEPT !.context = context, !.hasValidAWS = hasValidAWS]
        q2 == IF hasValidAWS THEN q1
              ELSE Log(q1, "warn", "AWS credentials invalid, proceeding with OpenAI only", <<>>)
    IN IF ~hasValidOpenAI THEN CatchBlock(q1, CredentialError)
       ELSE [q2 EXCEPT !.pc = "gathering", !.trace = Append(@, "gather.call")]

GatherFailedWrapped(q, error) ==
    CatchBlock([q EXCEPT !.trace = Append(@, "gather.throw")],
               Error("Error", <<"Failed to gather company intelligence:">>
                              \o error.message))

\* lines 162-165, 220-224: the gatherer has thrown
GatherFailed(q, error) ==
    CatchBlock([q EXCEPT !.trace = Append(@, "gather.throw")], error)

\* lines 162-172: the gatherer has returned
AfterGather(q, intelligence) ==
    LET q1 == [q EXCEPT !.intelligence = intelligence,
                        !.trace = Append(@, "gather.return")]
    IN IF q1.hasValidAWS
       THEN [q1 EXCEPT !.pc = "analyzing", !.trace = Append(@, "industry.call")]
       ELSE q1

\* lines 302-303: invokeClaude has returned
IndustryAnalysisReturned(q, text) ==
    [q EXCEPT !.industryAnalysis = text, !.trace = Append(@, "industry.return")]

\* lines 304-307: invokeClaude has thrown
IndustryAnalysisFailed(q, error) ==
    [Log(q, "warn", "Bedrock analysis failed, using fallback:", error.message)
        EXCEPT !.industryAnalysis = IndustryFallback(q.intelligence),
               !.trace = @ \o <<"bedrock.throw", "industry.return">>]

getOpenAIEager ==
    [throws |-> ~isValidApiKey(env.VITE_OPENAI_API_KEY),
     constructs |-> isValidApiKey(env.VITE_OPENAI_API_KEY)]

\* lines 36-48: throws, or returns the handle and constructs it if need be
getOpenAI ==
    [throws |-> openai = "null" /\ ~isValidApiKey(env.VITE_OPENAI_API_KEY),
     constructs |-> openai = "null" /\ isValidApiKey(env.VITE_OPENAI_API_KEY)]

CallPrimaryBeforePrompt(q) ==
    [q EXCEPT !.prompt = buildEnhancedPrompt(q.context, q.intelligence,
                                             q.industryAnalysis),
              !.trace = @ \o <<"primary.call", "prompt.built">>,
              !.pc = "completing"]

\* lines 178-194: build the prompt and call the primary provider
CallPrimary(q) ==
    [q EXCEPT !.prompt = buildEnhancedPrompt(q.context, q.intelligence,
                                             q.industryAnalysis),
              !.trace = @ \o <<"prompt.built", "primary.call">>,
              !.pc = "completing"]

\* lines 175-194: step 3 up to the await, for request r in state q
StepThree(r, q) ==
    IF getOpenAI.throws
    THEN /\ req' = [req EXCEPT ![r] = CatchBlock(q, GetOpenAIError)]
         /\ UNCHANGED <<openai, constructed>>
    ELSE /\ openai' = "client"
         /\ constructed' = IF getOpenAI.constructs THEN constructed + 1
                           ELSE constructed
         /\ req' = [req EXCEPT ![r] = CallPrimary(q)]

\* the least element of a non-empty set of positions
First(positions) == CHOOSE i \in positions : \A j \in positions : i <= j

RECURSIVE StripJsonFence(_)
\* replace(/[fence]json\n?/g, ''): cut the leftmost match, then the rest
StripJsonFence(s) ==
    LET matches == {i \in 1..(Len(s) - 1) : s[i] = Fence /\ s[i + 1] = "json"} IN
    IF matches = {} THEN s
    ELSE LET i == First(matches)
             after == IF Len(s) >= i + 2 /\ s[i + 2] = NL THEN i + 3 ELSE i + 2
         IN SubSeq(s, 1, i - 1) \o StripJsonFence(SubSeq(s, after, Len(s)))

RECURSIVE StripFence(_)
\* replace(/[fence]\n?/g, '')
StripFence(s) ==
    LET matches == {i \in 1..Len(s) : s[i] = Fence} IN
    IF matches = {} THEN s
    ELSE LET i == First(matches)
             after == IF Len(s) >= i + 1 /\ s[i + 1] = NL THEN i + 2 ELSE i + 1
         IN SubSeq(s, 1, i - 1) \o StripFence(SubSeq(s, after, Len(s)))

\* line 207
CleanResponse(response) == Trim(StripFence(StripJsonFence(response)))

\* String(parseError): the text of the SyntaxError differs between engines,
\* some quote the text given to JSON.parse
SyntaxErrorTexts(clean) ==
    {<<"SyntaxError: Unexpected token">>,
     <<"SyntaxError: Unexpected token in">> \o clean}

InvalidStructure == Error("Error", <<"Invalid response structure from AI">>)

\* lines 214-219: the structural check and the return
ValidateStructure(q, recommendations) ==
    IF recommendations.t = "null"
    THEN CatchBlock(q, Error("TypeError",
                             <<"Cannot read properties of null (reading 'unitMetrics')">>))
    ELSE IF \/ ~Truthy(GetProp(recommendations, K("unitMetrics")))
            \/ ~Truthy(GetProp(recommendations, K("conversationStarters")))
    THEN CatchBlock(q, InvalidStructure)
    ELSE [q EXCEPT !.pc = "resolved", !.result = recommendations]

ParseFailedUnlogged(q, response, syntaxError) ==
    CatchBlock(q, Error("Error", <<"Failed to parse AI response as JSON:">>
                                 \o syntaxError))

\* lines 209-212: JSON.parse has thrown
ParseFailed(q, response, syntaxError) ==
    CatchBlock(Log(q, "error", "JSON parse error:",
                   syntaxError \o <<"Raw response:">> \o response),
               Error("Error", <<"Failed to parse AI response as JSON:">>
                              \o syntaxError))

NoContentNullish(response) == ~response.defined

\* line 199: !response, true of undefined, of null and of the empty string
NoContent(response) == ~response.defined \/ response.text = <<>>

\* lines 196-219: the primary provider has returned
HandleCompletion(q, completion, syntaxError) ==
    LET response == ContentOf(completion)
        q1 == Log([q EXCEPT !.response = response,
                            !.trace = Append(@, "primary.return")],
                  "log", "OpenAI raw response:", response.text)
    IN IF NoContent(response)
       THEN CatchBlock(q1, Error("Error", <<"No response from OpenAI">>))
       ELSE LET p == JSONParse(CleanResponse(response.text)) IN
            IF ~p.ok THEN ParseFailed(q1, response.text, syntaxError)
            ELSE ValidateStructure([q1 EXCEPT !.parsed = [ok |-> TRUE, val |-> p.val]],
                                   p.val)

----------------------------------------------------------------------------
(* App.tsx: validateCompanyUrlMatch.  The form's strings are named by     *)
(* themselves; Chars gives the characters of each, since the function     *)
(* works character by character.                                           *)

\* the company names typed into the form
CompanyNames ==
    {"", "   ", "Acme Corp", "Acme", "International Business Machines",
     "IBM", "Globex, Inc.", "Inc", "AT&T", "Big Blue Co", " Acme ", "X Y",
     "AB", "The Acme Group"}

\* the website addresses typed into the form
WebsiteUrls ==
    {"", " ", "https://www.globex.com", "https://ibm.com", "acme.com",
     "http://www.acme-corp.io", "HTTPS://WWW.ACME.COM", "www.xy.org",
     "https://.com", "att.com", "bigblue.com", "https://www.abcam.com",
     "acmeworld.com", "gblu.io"}

\* the characters of a string of the form
Chars(s) ==
    CASE s = "" -> <<>>
      [] s = "   " -> <<" ", " ", " ">>
      [] s = "Acme Corp" -> <<"A", "c", "m", "e", " ", "C", "o", "r", "p">>
      [] s = "Acme" -> <<"A", "c", "m", "e">>
      [] s = "International Business Machines" ->
            <<"I", "n", "t", "e", "r", "n", "a", "t", "i", "o", "n", "a",
              "l", " ", "B", "u", "s", "i", "n", "e", "s", "s", " ", "M",
              "a", "c", "h", "i", "n", "e", "s">>
      [] s = "IBM" -> <<"I", "B", "M">>
      [] s = "Globex, Inc." ->
            <<"G", "l", "o", "b", "e", "x", ",", " ", "I", "n", "c", ".">>
      [] s = "Inc" -> <<"I", "n", "c">>
      [] s = "AT&T" -> <<"A", "T", "&", "T">>
      [] s = "Big Blue Co" ->
            <<"B", "i", "g", " ", "B", "l", "u", "e", " ", "C", "o">>
      [] s = " Acme " -> <<" ", "A", "c", "m", "e", " ">>
      [] s = "X Y" -> <<"X", " ", "Y">>
      [] s = "AB" -> <<"A", "B">>
      [] s = " " -> <<" ">>
      [] s = "The Acme Group" ->
            <<"T", "h", "e", " ", "A", "c", "m", "e", " ", "G", "r", "o", "u", "p">>
      [] s = "acmeworld.com" ->
            <<"a", "c", "m", "e", "w", "o", "r", "l", "d", ".", "c", "o", "m">>
      [] s = "gblu.io" ->
            <<"g", "b", "l", "u", ".", "i", "o">>
      [] s = "https://www.globex.com" ->
            <<"h", "t", "t", "p", "s", ":", "/", "/", "w", "w", "w", ".",
              "g", "l", "o", "b", "e", "x", ".", "c", "o", "m">>
      [] s = "https://ibm.com" ->
            <<"h", "t", "t", "p", "s", ":", "/", "/", "i", "b", "m", ".",
              "c", "o", "m">>
      [] s = "acme.com" -> <<"a", "c", "m", "e", ".", "c", "o", "m">>
      [] s = "http://www.acme-corp.io" ->
            <<"h", "t", "t", "p", ":", "/", "/", "w", "w", "w", ".", "a",
              "c", "m", "e", "-", "c", "o", "r", "p", ".", "i", "o">>
      [] s = "HTTPS://WWW.ACME.COM" ->
            <<"H", "T", "T", "P", "S", ":", "/", "/", "W", "W", "W", ".",
              "A", "C", "M", "E", ".", "C", "O", "M">>
      [] s = "www.xy.org" ->
            <<"w", "w", "w", ".", "x", "y", ".", "o", "r", "g">>
      [] s = "https://.com" ->
            <<"h", "t", "t", "p", "s", ":", "/", "/", ".", "c", "o", "m">>
      [] s = "att.com" -> <<"a", "t", "t", ".", "c", "o", "m">>
      [] s = "bigblue.com" ->
            <<"b", "i", "g", "b", "l", "u", "e", ".", "c", "o", "m">>
      [] s = "https://www.abcam.com" ->
            <<"h", "t", "t", "p", "s", ":", "/", "/", "w", "w", "w", ".",
              "a", "b", "c", "a", "m", ".", "c", "o", "m">>

UpperCase ==
    <<"A", "B", "C", "D", "E", "F", "G", "H", "I", "J", "K", "L", "M",
      "N", "O", "P", "Q", "R", "S", "T", "U", "V", "W", "X", "Y", "Z">>

LowerCase ==
    <<"a", "b", "c", "d", "e", "f", "g", "h", "i", "j", "k", "l", "m",
      "n", "o", "p", "q", "r", "s", "t", "u", "v", "w", "x", "y", "z">>

Digits == {"0", "1", "2", "3", "4", "5", "6", "7", "8", "9"}

\* String.prototype.toLowerCase
toLowerCase(cs) ==
    [i \in 1..Len(cs) |->
        IF \E k \in 1..Len(UpperCase) : UpperCase[k] = cs[i]
        THEN LowerCase[CHOOSE k \in 1..Len(UpperCase) : UpperCase[k] = cs[i]]
        ELSE cs[i]]

\* the character classes [a-z0-9] and \s
IsAlnum(c) == c \in Digits \/ \E k \in 1..Len(LowerCase) : LowerCase[k] = c

IsSpace(c) == c \in Whitespace

\* replace(/[^a-z0-9\s]/g, ''), replace(/\s+/g, ''), replace(/[^a-z0-9]/g, '')
RECURSIVE Keep(_, _)
Keep(cs, class) ==
    IF cs = <<>> THEN <<>>
    ELSE IF    \/ "alnum" \in class /\ IsAlnum(Head(cs))
               \/ "space" \in class /\ IsSpace(Head(cs))
         THEN <<Head(cs)>> \o Keep(Tail(cs), class)
         ELSE Keep(Tail(cs), class)

\* does text start with prefix
StartsWith(cs, prefix) ==
    Len(cs) >= Len(prefix) /\ SubSeq(cs, 1, Len(prefix)) = prefix

\* replace(/^prefix/g, '')
DropPrefix(cs, prefix) ==
    IF StartsWith(cs, prefix) THEN SubSeq(cs, Len(prefix) + 1, Len(cs)) ELSE cs

\* split('.')[0]
FirstLabel(cs) ==
    IF \E i \in 1..Len(cs) : cs[i] = "."
    THEN SubSeq(cs, 1, First({i \in 1..Len(cs) : cs[i] = "."}) - 1)
    ELSE cs

MinPartLen == 3
MinAcronymLen == 2

\* the alternatives of line 15
LegalSuffixes ==
    {<<"i", "n", "c">>, <<"c", "o", "r", "p">>,
     <<"c", "o", "r", "p", "o", "r", "a", "t", "i", "o", "n">>,
     <<"l", "l", "c">>, <<"l", "t", "d">>, <<"l", "i", "m", "i", "t", "e", "d">>,
     <<"c", "o", "m", "p", "a", "n", "y">>, <<"c", "o">>}

\* replace(/(inc|corp|corporation|llc|ltd|limited|company|co)$/g, ''): the
\* leftmost position from which an alternative reaches the end
StripLegalSuffix(cs) ==
    LET starts == {i \in 1..Len(cs) : SubSeq(cs, i, Len(cs)) \in LegalSuffixes}
    IN IF starts = {} THEN cs ELSE SubSeq(cs, 1, First(starts) - 1)

\* lines 12-15
cleanCompanyName(companyName) ==
    StripLegalSuffix(Keep(Keep(toLowerCase(Chars(companyName)), {"alnum", "space"}),
                          {"alnum"}))

\* lines 17-21
cleanUrl(websiteUrl) ==
    LET lower == toLowerCase(Chars(websiteUrl))
        noScheme == IF StartsWith(lower, <<"h", "t", "t", "p", "s", ":", "/", "/">>)
                    THEN DropPrefix(lower, <<"h", "t", "t", "p", "s", ":", "/", "/">>)
                    ELSE DropPrefix(lower, <<"h", "t", "t", "p", ":", "/", "/">>)
        noWww == DropPrefix(noScheme, <<"w", "w", "w", ".">>)
    IN Keep(FirstLabel(noWww), {"alnum"})

RECURSIVE SplitSpaces(_)
\* split(/\s+/): the pieces between the runs of whitespace, empty pieces at
\* either end included
SplitSpaces(cs) ==
    LET spaces == {i \in 1..Len(cs) : IsSpace(cs[i])} IN
    IF spaces = {} THEN <<cs>>
    ELSE LET i == First(spaces)
             j == First({k \in i..Len(cs) : k = Len(cs) \/ ~IsSpace(cs[k + 1])})
         IN <<SubSeq(cs, 1, i - 1)>> \o SplitSpaces(SubSeq(cs, j + 1, Len(cs)))

\* line 36
companyWords(companyName) == SplitSpaces(toLowerCase(Chars(companyName)))

RECURSIVE Initials(_)
\* lines 49-52: filter(word => word.length > 0).map(word => word[0]).join('')
Initials(words) ==
    IF words = <<>> THEN <<>>
    ELSE (IF Head(words) = <<>> THEN <<>> ELSE <<Head(words)[1]>>)
         \o Initials(Tail(words))

PartialMatchUnguarded(name, url) == Includes(name, url) \/ Includes(url, name)

\* lines 28-33: one normalized form contains the other
PartialMatch(name, url) ==
    /\ Len(name) >= MinPartLen
    /\ Len(url) >= MinPartLen
    /\ (Includes(name, url) \/ Includes(url, name))

\* lines 40-45: a word of the name occurs in the address
WordMatch(words, urlParts) ==
    \E k \in 1..Len(words) :
        LET cleanWord == Keep(words[k], {"alnum"}) IN
        Len(cleanWord) >= MinPartLen /\ Includes(urlParts, cleanWord)

\* lines 48-56: the initials of the name occur in the address
AcronymMatch(words, urlParts) ==
    /\ Len(words) > 1
    /\ LET acronym == Initials(words) IN
       Len(acronym) >= MinAcronymLen /\ Includes(urlParts, acronym)

validateCompanyUrlMatchStrict(companyName, websiteUrl) ==
    /\ Trim(Chars(companyName)) # <<>>
    /\ Trim(Chars(websiteUrl)) # <<>>
    /\ cleanCompanyName(companyName) = cleanUrl(websiteUrl)

\* lines 6-59
validateCompanyUrlMatch(companyName, websiteUrl) ==
    IF Trim(Chars(companyName)) = <<>> \/ Trim(Chars(websiteUrl)) = <<>>
    THEN TRUE
    ELSE \/ cleanCompanyName(companyName) = cleanUrl(websiteUrl)
         \/ PartialMatch(cleanCompanyName(companyName), cleanUrl(websiteUrl))
         \/ WordMatch(companyWords(companyName), cleanUrl(websiteUrl))
         \/ AcronymMatch(companyWords(companyName), cleanUrl(websiteUrl))

----------------------------------------------------------------------------
(* App.tsx: the state of the App component and its handlers.               *)

NoWarning == <<>>

\* lines 86-99, with two fields of history: last, the handler that ran
\* last, and outcome, what the latest handleSubmit came to ("none",
\* "blank", "warned", "pending", "resolved", "rejected"); request is the
\* call of generateRecommendations that the latest handleSubmit made
InitialApp ==
    [formData |-> NoContext, recommendations |-> Null, isGenerating |-> FALSE,
     validationWarning |-> NoWarning, showErrorModal |-> FALSE,
     errorMessage |-> <<>>, request |-> "none", last |-> "mount",
     outcome |-> "none"]

\* the values typed into the two text inputs; the checkboxes stay as they
\* are at first, the flags of a context being drawn freely in Spec
FormNames == {"", "   ", "Acme Corp"}
FormUrls == {"", " ", "acme.com", "https://www.globex.com"}
FormInputs ==
    {[name |-> "companyName", value |-> v] : v \in FormNames}
    \cup {[name |-> "websiteUrl", value |-> v] : v \in FormUrls}

\* lines 159 and 194: the form is rendered unless the loading screen or the
\* results are
FormVisible(a) == ~a.isGenerating /\ ~Truthy(a.recommendations)

\* lines 406 and 423: the browser submits the form only when the required
\* inputs are not empty
RequiredFilled(formData) == formData.companyName # "" /\ formData.websiteUrl # ""

\* lines 101-112
handleInputChange(a, input) ==
    [a EXCEPT !.formData = [@ EXCEPT ![input.name] = input.value],
              !.validationWarning = NoWarning,
              !.last = "handleInputChange"]

FormBlankNameOnly(formData) == Trim(Chars(formData.companyName)) = <<>>

\* line 116: either text input is empty once trimmed
FormBlank(formData) ==
    \/ Trim(Chars(formData.companyName)) = <<>>
    \/ Trim(Chars(formData.websiteUrl)) = <<>>

\* lines 116-120
BlankMessage == <<"Please enter both a company name and website URL to continue.">>

\* line 124
MismatchWarning(formData) ==
    <<"The company name", formData.companyName,
      "doesn't seem to match the website URL", formData.websiteUrl,
      ". This might lead to inaccurate recommendations.">>

\* line 136: errorMessage.includes('API key'), the two words being a token
\* of every text that holds them
MentionsApiKey(message) == \E i \in 1..Len(message) : message[i] = "API key"

\* lines 135-140
ErrorModalText(error) ==
    LET errorMessage == IF error.name = "none" THEN <<"Unknown error occurred">>
                        ELSE error.message
    IN IF MentionsApiKey(errorMessage)
       THEN <<"API configuration error:">> \o errorMessage
            \o <<NL, NL, "Please check your .env.local file and ensure your OpenAI",
                 "API key", "is valid.">>
       ELSE <<"Error generating recommendations:">> \o errorMessage

handleSubmitResumedNoFinally(a, r, q) ==
    IF a.request # r \/ ~a.isGenerating \/ q.pc \notin {"resolved", "rejected"}
    THEN a
    ELSE IF q.pc = "resolved"
    THEN [a EXCEPT !.recommendations = q.result, !.isGenerating = FALSE,
                   !.outcome = "resolved"]
    ELSE [a EXCEPT !.errorMessage = ErrorModalText(q.error),
                   !.showErrorModal = TRUE, !.outcome = "rejected"]

\* lines 131-144: handleSubmit from its await on, once request r has settled
\* as q
handleSubmitResumed(a, r, q) ==
    IF a.request # r \/ ~a.isGenerating \/ q.pc \notin {"resolved", "rejected"}
    THEN a
    ELSE IF q.pc = "resolved"
    THEN [a EXCEPT !.recommendations = q.result, !.isGenerating = FALSE,
                   !.outcome = "resolved"]
    ELSE [a EXCEPT !.errorMessage = ErrorModalText(q.error),
                   !.showErrorModal = TRUE, !.isGenerating = FALSE,
                   !.outcome = "rejected"]

\* lines 147-157
handleReset(a) ==
    [a EXCEPT !.formData = NoContext, !.recommendations = Null,
              !.last = "handleReset"]

----------------------------------------------------------------------------
(* The actions.                                                            *)

\* generateRecommendations(context) is called
Start(r, context) ==
    /\ req[r].pc = "idle"
    /\ req' = [req EXCEPT ![r] = BeginRequest(req[r], context)]
    /\ UNCHANGED <<env, openai, constructed>>
    /\ UNCHANGED others
    /\ app' = handleSubmitResumed(app, r, req'[r])

\* gatherCompanyIntelligence resolves
GatherReturn(r, intelligence) ==
    /\ req[r].pc = "gathering"
    /\ LET q == AfterGather(req[r], intelligence) IN
       IF q.pc = "analyzing"
       THEN req' = [req EXCEPT ![r] = q] /\ UNCHANGED <<openai, constructed>>
       ELSE StepThree(r, q)
    /\ UNCHANGED env
    /\ UNCHANGED others
    /\ app' = handleSubmitResumed(app, r, req'[r])

\* gatherCompanyIntelligence rejects
GatherThrow(r, error) ==
    /\ req[r].pc = "gathering"
    /\ req' = [req EXCEPT ![r] = GatherFailed(req[r], error)]
    /\ UNCHANGED <<env, openai, constructed>>
    /\ UNCHANGED others
    /\ app' = handleSubmitResumed(app, r, req'[r])

\* BedrockService.invokeClaude resolves
BedrockReturn(r, text) ==
    /\ req[r].pc = "analyzing"
    /\ StepThree(r, IndustryAnalysisReturned(req[r], text))
    /\ UNCHANGED env
    /\ UNCHANGED others
    /\ app' = handleSubmitResumed(app, r, req'[r])

\* BedrockService.invokeClaude rejects
BedrockThrow(r, error) ==
    /\ req[r].pc = "analyzing"
    /\ StepThree(r, IndustryAnalysisFailed(req[r], error))
    /\ UNCHANGED env
    /\ UNCHANGED others
    /\ app' = handleSubmitResumed(app, r, req'[r])

\* openai.chat.completions.create resolves
PrimaryReturn(r, completion) ==
    /\ req[r].pc = "completing"
    /\ \E syntaxError \in SyntaxErrorTexts(CleanResponse(completion.text)) :
          req' = [req EXCEPT ![r] = HandleCompletion(req[r], completion, syntaxError)]
    /\ UNCHANGED <<env, openai, constructed>>
    /\ UNCHANGED others
    /\ app' = handleSubmitResumed(app, r, req'[r])

\* openai.chat.completions.create rejects
PrimaryThrow(r, error) ==
    /\ req[r].pc = "completing"
    /\ req' = [req EXCEPT ![r] =
                  CatchBlock([req[r] EXCEPT !.trace = Append(@, "primary.throw")], error)]
    /\ UNCHANGED <<env, openai, constructed>>
    /\ UNCHANGED others
    /\ app' = handleSubmitResumed(app, r, req'[r])

\* a call of one of the two pure functions and what it returned
NoCall ==
    [fn |-> "none", context |-> NoContext, companyName |-> "", websiteUrl |-> "",
     value |-> Undefined, verdict |-> FALSE]

\* the contexts the fallback is applied to
FallbackContexts ==
    [companyName : {"", "Acme", "Globex, Inc."}, websiteUrl : {""}, email : {""},
     ppa : BOOLEAN, genAI : BOOLEAN, cloudCostConcerns : BOOLEAN]

\* getFallbackRecommendations(context) is called and returns
CallFallback(context) ==
    /\ pure' = [NoCall EXCEPT !.fn = "getFallbackRecommendations",
                              !.context = context,
                              !.value = getFallbackRecommendations(context)]
    /\ UNCHANGED <<env, openai, constructed, req, app>>

\* validateCompanyUrlMatch(companyName, websiteUrl) is called and returns
CallValidate(companyName, websiteUrl) ==
    /\ pure' = [NoCall EXCEPT !.fn = "validateCompanyUrlMatch",
                              !.companyName = companyName,
                              !.websiteUrl = websiteUrl,
                              !.verdict = validateCompanyUrlMatch(companyName,
                                                                  websiteUrl)]
    /\ UNCHANGED <<env, openai, constructed, req, app>>

\* the request that the next call of generateRecommendations is
NextRequest == CHOOSE r \in Req : req[r].pc = "idle" /\ (r = "r1" \/ req["r1"].pc # "idle")

\* a change event of an input of the form
HandleInputChange(input) ==
    /\ FormVisible(app)
    /\ app' = handleInputChange(app, input)
    /\ UNCHANGED <<env, openai, constructed, req, pure>>

\* lines 114-131: the form is submitted; handleSubmit runs to its return or
\* to its await, and past the await if generateRecommendations has
\* rejected at once
HandleSubmit ==
    /\ FormVisible(app)
    /\ RequiredFilled(app.formData)
    /\ LET formData == app.formData
           a == [app EXCEPT !.last = "handleSubmit"]
       IN IF FormBlank(formData)
          THEN /\ app' = [a EXCEPT !.errorMessage = BlankMessage,
                                   !.showErrorModal = TRUE, !.outcome = "blank"]
               /\ UNCHANGED req
          ELSE IF /\ Trim(Chars(formData.websiteUrl)) # <<>>
                  /\ ~validateCompanyUrlMatch(formData.companyName,
                                              formData.websiteUrl)
          THEN /\ app' = [a EXCEPT !.validationWarning = MismatchWarning(formData),
                                   !.outcome = "warned"]
               /\ UNCHANGED req
          ELSE /\ \E r \in Req : req[r].pc = "idle"
               /\ LET r == NextRequest
                      q == BeginRequest(req[r], formData)
                  IN /\ req' = [req EXCEPT ![r] = q]
                     /\ app' = handleSubmitResumed(
                                   [a EXCEPT !.validationWarning = NoWarning,
                                             !.isGenerating = TRUE,
                                             !.request = r,
                                             !.outcome = "pending"], r, q)
    /\ UNCHANGED <<env, openai, constructed, pure>>

\* line 527: the Proceed Anyway button, rendered while a warning is shown
ProceedAnyway ==
    /\ FormVisible(app)
    /\ app.validationWarning # NoWarning
    /\ app' = [app EXCEPT !.validationWarning = NoWarning, !.last = "proceedAnyway"]
    /\ UNCHANGED <<env, openai, constructed, req, pure>>

\* lines 357 and 367: either button of the error modal
CloseErrorModal ==
    /\ FormVisible(app)
    /\ app.showErrorModal
    /\ app' = [app EXCEPT !.showErrorModal = FALSE, !.last = "closeErrorModal"]
    /\ UNCHANGED <<env, openai, constructed, req, pure>>

\* line 207: the button of the results screen
HandleReset ==
    /\ ~app.isGenerating
    /\ Truthy(app.recommendations)
    /\ app' = handleReset(app)
    /\ UNCHANGED <<env, openai, constructed, req, pure>>

Environments ==
    [VITE_OPENAI_API_KEY : PrimaryKeys, VITE_AWS_ACCESS_KEY_ID : SecondaryKeys,
     VITE_AWS_SECRET_ACCESS_KEY : SecondaryKeys]

\* one request in a fresh process
Init ==
    /\ env \in Environments
    /\ openai = "null"
    /\ constructed = 0
    /\ req = [r \in Req |-> IF r = "r1" THEN IdleRequest
                            ELSE [IdleRequest EXCEPT !.pc = "off"]]
    /\ pure = NoCall
    /\ app = InitialApp

Next ==
    \/ \E r \in Req, context \in Contexts : Start(r, context)
    \/ \E r \in Req, intelligence \in Intelligences : GatherReturn(r, intelligence)
    \/ \E r \in Req, error \in GatherErrors : GatherThrow(r, error)
    \/ \E r \in Req, text \in BedrockTexts : BedrockReturn(r, text)
    \/ \E r \in Req, error \in BedrockErrors : BedrockThrow(r, error)
    \/ \E r \in Req, completion \in Completions : PrimaryReturn(r, completion)
    \/ \E r \in Req, error \in PrimaryErrors : PrimaryThrow(r, error)

Spec == Init /\ [][Next]_vars

\* the two pure functions, applied to every input of the bounded sets
InitPure ==
    /\ env = [VITE_OPENAI_API_KEY |-> NoKey, VITE_AWS_ACCESS_KEY_ID |-> NoKey,
              VITE_AWS_SECRET_ACCESS_KEY |-> NoKey]
    /\ openai = "null"
    /\ constructed = 0
    /\ req = [r \in Req |-> [IdleRequest EXCEPT !.pc = "off"]]
    /\ pure = NoCall
    /\ app = InitialApp

NextPure ==
    \/ \E context \in FallbackContexts : CallFallback(context)
    \/ \E companyName \in CompanyNames, websiteUrl \in WebsiteUrls :
          CallValidate(companyName, websiteUrl)

SpecPure == InitPure /\ [][NextPure]_vars

\* the App with the service behind it: the inputs of the service are few,
\* since every state of the form multiplies them
AppEnvironments ==
    {e \in Environments :
        /\ e.VITE_OPENAI_API_KEY \in {NoKey, Key(Rep("k", MinKeyLen + 1))}
        /\ e.VITE_AWS_ACCESS_KEY_ID = Key(Rep("a", MinKeyLen + 1))
        /\ e.VITE_AWS_SECRET_ACCESS_KEY = Key(Rep("a", MinKeyLen + 1))}

AppIntelligences == {i \in Intelligences : i.techStack = <<"GCP">>}

AppBedrockErrors == {e \in BedrockErrors : e.name = "Error"}

AppCompletions ==
    {c \in Completions :
        \/ c.shape = "nullContent"
        \/ c.shape = "content"
           /\ c.text \in {Stringify(ProviderRecommendation(4, 3, {}, 3)),
                          Stringify(Obj(<<>>)),
                          <<"Please provide your OpenAI", "API key">>}}

InitApp ==
    /\ env \in AppEnvironments
    /\ openai = "null"
    /\ constructed = 0
    /\ req = [r \in Req |-> IdleRequest]
    /\ pure = NoCall
    /\ app = InitialApp

NextApp ==
    \/ \E input \in FormInputs : HandleInputChange(input)
    \/ HandleSubmit
    \/ ProceedAnyway
    \/ CloseErrorModal
    \/ HandleReset
    \/ \E r \in Req, intelligence \in AppIntelligences : GatherReturn(r, intelligence)
    \/ \E r \in Req, error \in GatherErrors : GatherThrow(r, error)
    \/ \E r \in Req, text \in BedrockTexts : BedrockReturn(r, text)
    \/ \E r \in Req, error \in AppBedrockErrors : BedrockThrow(r, error)
    \/ \E r \in Req, completion \in AppCompletions : PrimaryReturn(r, completion)
    \/ \E r \in Req, error \in PrimaryErrors : PrimaryThrow(r, error)

SpecApp == InitApp /\ [][NextApp]_vars

\* a step of the service: one of the awaited calls settles
ServiceStep ==
    \/ \E r \in Req, intelligence \in AppIntelligences : GatherReturn(r, intelligence)
    \/ \E r \in Req, error \in GatherErrors : GatherThrow(r, error)
    \/ \E r \in Req, text \in BedrockTexts : BedrockReturn(r, text)
    \/ \E r \in Req, error \in AppBedrockErrors : BedrockThrow(r, error)
    \/ \E r \in Req, completion \in AppCompletions : PrimaryReturn(r, completion)
    \/ \E r \in Req, error \in PrimaryErrors : PrimaryThrow(r, error)

\* the App when every call that generateRecommendations awaits settles in
\* the end
SpecAppFair == InitApp /\ [][NextApp]_vars /\ WF_vars(ServiceStep)

\* two requests in one process, interleaved at their awaits
ConcEnvironments ==
    {e \in Environments :
        /\ e.VITE_OPENAI_API_KEY \in {NoKey, Key(Rep("k", MinKeyLen + 1))}
        /\ e.VITE_AWS_ACCESS_KEY_ID = e.VITE_AWS_SECRET_ACCESS_KEY
        /\ e.VITE_AWS_ACCESS_KEY_ID \in {NoKey, Key(Rep("a", MinKeyLen + 1))}}

ConcContexts == {c \in Contexts : c.websiteUrl = "" /\ c.genAI /\ c.cloudCostConcerns}

InitConc ==
    /\ env \in ConcEnvironments
    /\ openai = "null"
    /\ constructed = 0
    /\ req = [r \in Req |-> IdleRequest]
    /\ pure = NoCall
    /\ app = InitialApp

NextConc ==
    \/ \E r \in Req, context \in ConcContexts : Start(r, context)
    \/ \E r \in Req, intelligence \in AppIntelligences : GatherReturn(r, intelligence)
    \/ \E r \in Req, error \in GatherErrors : GatherThrow(r, error)
    \/ \E r \in Req, text \in BedrockTexts : BedrockReturn(r, text)
    \/ \E r \in Req, error \in AppBedrockErrors : BedrockThrow(r, error)
    \/ \E r \in Req, completion \in AppCompletions : PrimaryReturn(r, completion)
    \/ \E r \in Req, error \in PrimaryErrors : PrimaryThrow(r, error)

SpecConc == InitConc /\ [][NextConc]_vars

----------------------------------------------------------------------------
(* Vocabulary of the properties.                                           *)

Called(r) == req[r].pc \notin {"off", "idle"}
Has(trace, event) == \E i \in 1..Len(trace) : trace[i] = event
Count(trace, event) == Cardinality({i \in 1..Len(trace) : trace[i] = event})
\* the position of an event that occurs in the trace
At(trace, event) == First({i \in 1..Len(trace) : trace[i] = event})
Before(trace, a, b) == Has(trace, a) /\ Has(trace, b) /\ At(trace, a) < At(trace, b)

\* the text of a prompt between two of its headings
Between(prompt, from, to) ==
    SubSeq(prompt, At(prompt, from) + 1, At(prompt, to) - 1)

\* the schema specification at the end of a prompt
SchemaOf(prompt) == Between(prompt, SchemaIntro, SchemaOutro)

\* the text inside the braces of the schema's conditionalInsights mapping
InsightsMappingOf(schema) ==
    LET key == At(schema, "conditionalInsights")
        open == First({i \in key..Len(schema) : schema[i] = "{"})
        close == First({i \in open..Len(schema) : schema[i] = "}"})
    IN Trim(SubSeq(schema, open + 1, close - 1))

\* a credential as the specification describes an implausible one
Implausible(key) ==
    \/ ~key.defined
    \/ Trim(key.chars) = <<>>
    \/ Includes(key.chars, Placeholder)
    \/ ~(Len(key.chars) > MinKeyLen)

\* the output contract of AIRecommendation for a request's flags
IsList(v, lengths) == v.t = "arr" /\ Len(v.a) \in lengths
SatisfiesContract(v, context) ==
    /\ v.t = "obj"
    /\ IsList(GetProp(v, K("unitMetrics")), {4, 5})
    /\ IsList(GetProp(v, K("conversationStarters")), {3})
    /\ GetProp(v, K("conditionalInsights")).t = "obj"
    /\ \A f \in Flags :
          /\ HasKey(GetProp(v, K("conditionalInsights")), K(f)) <=> context[f]
          /\ context[f] => IsList(GetProp(GetProp(v, K("conditionalInsights")), K(f)), {3})

----------------------------------------------------------------------------
(* C1.  For each of the eight combinations of ppa, genAI and               *)
(* cloudCostConcerns the schema specification at the end of the prompt is  *)
(* well-formed: it parses, no comma follows the last key of the            *)
(* conditionalInsights mapping, and with no flag set the mapping is empty. *)
(* The code ends the ppa and genAI lines with a comma whatever follows, so *)
(* this fails whenever cloudCostConcerns is false and another flag is true.*)
C1_SchemaWellFormed ==
    \A r \in Req :
        req[r].prompt # <<>> =>
            LET schema == SchemaOf(req[r].prompt)
                mapping == InsightsMappingOf(schema)
                c == req[r].context
            IN /\ JSONParse(schema).ok
               /\ mapping # <<>> => mapping[Len(mapping)] # ","
               /\ (~c.ppa /\ ~c.genAI /\ ~c.cloudCostConcerns) => mapping = <<>>

----------------------------------------------------------------------------
----------------------------------------------------------------------------
(* C3.  Every value a request returns satisfies the output contract: 4 or  *)
(* 5 unit metrics, exactly 3 conversation starters, and each flag's key in *)
(* conditionalInsights iff the flag was set, with exactly 3 items.  The    *)
(* code checks only that the two lists are there, so this fails.           *)
C3_ReturnedValueSatisfiesContract ==
    \A r \in Req :
        req[r].pc = "resolved" => SatisfiesContract(req[r].result, req[r].context)

----------------------------------------------------------------------------
(* C4.  Once the provider's text has parsed, the request returns the       *)
(* parsed value unchanged iff it has both unitMetrics and                  *)
(* conversationStarters; otherwise, a parsed null included, it fails with  *)
(* 'Invalid response structure from AI'.  A list is taken to be there when *)
(* the property read yields a value the code's test accepts.  The code     *)
(* reads a property of null, which throws a TypeError.                     *)
C4_ReturnsIffBothListsPresent ==
    \A r \in Req :
        req[r].parsed.ok =>
            LET v == req[r].parsed.val
                both == /\ v.t = "obj"
                        /\ Truthy(GetProp(v, K("unitMetrics")))
                        /\ Truthy(GetProp(v, K("conversationStarters")))
            IN IF both
               THEN req[r].pc = "resolved" /\ req[r].result = v
               ELSE req[r].pc = "rejected" /\ req[r].error = InvalidStructure

----------------------------------------------------------------------------
(* C5, as claimed.  When the provider's text does not parse, the error     *)
(* delivered to the caller carries the provider's original raw text.       *)
ParseFailure(r) ==
    /\ Has(req[r].trace, "primary.return")
    /\ req[r].response.defined
    /\ req[r].response.text # <<>>
    /\ ~JSONParse(CleanResponse(req[r].response.text)).ok

----------------------------------------------------------------------------
(* C6.  A failure of the gatherer is fatal: the request fails with exactly *)
(* the error the gatherer threw, the industry analyzer and the primary     *)
(* provider are not called, and no fallback recommendation is returned.    *)
C6_GathererFailureIsFatal ==
    /\ [](\A r \in Req :
            Has(req[r].trace, "gather.throw") =>
                /\ req[r].pc = "rejected"
                /\ req[r].error \in GatherErrors
                /\ req[r].result = Undefined
                /\ ~Has(req[r].trace, "industry.call")
                /\ ~Has(req[r].trace, "primary.call")
                /\ ~Has(req[r].trace, "fallback.call"))
    /\ [][\A r \in Req, e \in GatherErrors :
            GatherThrow(r, e) => req'[r].pc = "rejected" /\ req'[r].error = e]_vars

C6_Witness ==
    \E r \in Req :
        /\ req[r].trace = <<"gather.call", "gather.throw">>
        /\ req[r].pc = "rejected"
        /\ req[r].hasValidAWS
        /\ req[r].error \in GatherErrors

----------------------------------------------------------------------------
(* C7.  getIndustryAnalysis never raises: when the secondary provider      *)
(* fails it returns the sentence built only from companyName, industry and *)
(* businessModel, and the request goes on to build the prompt and call the *)
(* primary provider; if the request fails, it fails at a later step.       *)
SameThree(i, j) ==
    /\ i.companyName = j.companyName
    /\ i.industry = j.industry
    /\ i.businessModel = j.businessModel

C7_SecondaryFailureAbsorbed ==
    \A r \in Req :
        Has(req[r].trace, "bedrock.throw") =>
            /\ Before(req[r].trace, "bedrock.throw", "industry.return")
            /\ Before(req[r].trace, "industry.return", "prompt.built")
            /\ Before(req[r].trace, "prompt.built", "primary.call")
            /\ req[r].industryAnalysis # <<>>
            /\ \A f \in {"companyName", "industry", "businessModel"} :
                  Has(req[r].industryAnalysis, req[r].intelligence[f])
            /\ \A i \in Intelligences :
                  SameThree(i, req[r].intelligence) =>
                      IndustryFallback(i) = req[r].industryAnalysis
            /\ Includes(req[r].prompt, req[r].industryAnalysis)
            /\ req[r].error \notin BedrockErrors
            /\ req[r].pc = "rejected" =>
                  \/ Has(req[r].trace, "primary.return")
                  \/ Has(req[r].trace, "primary.throw")

C7_Witness ==
    \E r \in Req :
        /\ Has(req[r].trace, "bedrock.throw")
        /\ req[r].pc = "resolved"
        /\ req[r].intelligence.techStack # <<>>

----------------------------------------------------------------------------
(* C8.  With a valid primary credential: if either string of the secondary *)
(* pair is implausible the request proceeds, the industry analyzer is not  *)
(* called and the prompt carries the empty text as industry analysis; if   *)
(* both are plausible the analyzer is called exactly once, right after the *)
(* gatherer has returned.                                                  *)
IndustrySectionOf(prompt) ==
    Trim(Between(prompt, "Industry Analysis:", "Focus Areas Selected:"))

PairPlausible ==
    /\ ~Implausible(env.VITE_AWS_ACCESS_KEY_ID)
    /\ ~Implausible(env.VITE_AWS_SECRET_ACCESS_KEY)

C8_SecondaryCredentialGatesAnalysis ==
    \A r \in Req :
        (Called(r) /\ ~Implausible(env.VITE_OPENAI_API_KEY)) =>
            LET t == req[r].trace IN
            /\ Has(t, "gather.call")
            /\ ~PairPlausible =>
                  /\ ~Has(t, "industry.call")
                  /\ Has(t, "gather.return") =>
                        /\ Has(t, "prompt.built")
                        /\ IndustrySectionOf(req[r].prompt) = <<>>
            /\ PairPlausible =>
                  /\ Count(t, "industry.call") <= 1
                  /\ Has(t, "gather.return") <=> Has(t, "industry.call")
                  /\ Has(t, "industry.call") =>
                        At(t, "industry.call") = At(t, "gather.return") + 1
                  /\ Has(t, "prompt.built") =>
                        IndustrySectionOf(req[r].prompt) = req[r].industryAnalysis

C8_Witness ==
    \E r \in Req :
        /\ ~Implausible(env.VITE_OPENAI_API_KEY)
        /\ ~Implausible(env.VITE_AWS_ACCESS_KEY_ID)
        /\ Implausible(env.VITE_AWS_SECRET_ACCESS_KEY)
        /\ req[r].pc = "resolved"
        /\ IndustrySectionOf(req[r].prompt) = <<>>

----------------------------------------------------------------------------
(* C9.  Within a request the external calls are strictly sequential, in    *)
(* the order gatherer, industry analysis (if performed), primary provider, *)
(* each made at most once; the industry analysis has completed before the  *)
(* prompt is built, and the prompt is built before the primary provider is *)
(* called.                                                                 *)
Rank(event) ==
    CASE event = "gather.call" -> 1
      [] event \in {"gather.return", "gather.throw"} -> 2
      [] event = "industry.call" -> 3
      [] event = "bedrock.throw" -> 4
      [] event = "industry.return" -> 5
      [] event = "prompt.built" -> 6
      [] event = "primary.call" -> 7
      [] event \in {"primary.return", "primary.throw"} -> 8
      [] OTHER -> 0

C9_CallsSequentialAndOrdered ==
    \A r \in Req :
        LET t == req[r].trace IN
        /\ \A i, j \in 1..Len(t) : i < j => Rank(t[i]) < Rank(t[j])
        /\ Has(t, "industry.call") => Before(t, "gather.return", "industry.call")
        /\ Has(t, "prompt.built") =>
              /\ Has(t, "gather.return")
              /\ Has(t, "industry.call") => Before(t, "industry.return", "prompt.built")
              /\ req[r].prompt = buildEnhancedPrompt(req[r].context, req[r].intelligence,
                                                     req[r].industryAnalysis)
        /\ Has(t, "primary.call") => Before(t, "prompt.built", "primary.call")
        /\ Has(t, "prompt.built") <=> req[r].prompt # <<>>

C9_Witness ==
    \E r \in Req :
        req[r].trace = <<"gather.call", "gather.return", "industry.call",
                         "industry.return", "prompt.built", "primary.call",
                         "primary.return">>

----------------------------------------------------------------------------
(* C10.  generateRecommendations never calls getFallbackRecommendations    *)
(* and never substitutes a fallback value: a returned value is the parsed  *)
(* answer of the primary provider, and every fatal failure (credential,    *)
(* gathering, no content, parse, structural check, a provider error) ends  *)
(* the request with an error and no value.                                 *)
FatalFailure(r) ==
    \/ Implausible(env.VITE_OPENAI_API_KEY)
    \/ Has(req[r].trace, "gather.throw")
    \/ Has(req[r].trace, "primary.throw")
    \/ /\ Has(req[r].trace, "primary.return")
       /\ \/ ~req[r].response.defined
          \/ req[r].response.text = <<>>
          \/ LET p == JSONParse(CleanResponse(req[r].response.text)) IN
             \/ ~p.ok
             \/ p.val.t # "obj"
             \/ ~Truthy(GetProp(p.val, K("unitMetrics")))
             \/ ~Truthy(GetProp(p.val, K("conversationStarters")))

----------------------------------------------------------------------------
\* C11: when the primary provider's completion carries no content (no
\* choice, no message, null content or the empty string) the request is
\* rejected with the error 'No response from OpenAI', nothing was parsed
\* and no structural validation took place.
NoResponseCase(q) ==
    /\ Has(q.trace, "primary.return")
    /\ (~q.response.defined \/ Len(q.response.text) = 0)

C11_NoContentFailsBeforeParsing ==
    \A r \in Req :
        NoResponseCase(req[r]) =>
            /\ req[r].pc = "rejected"
            /\ req[r].error = Error("Error", <<"No response from OpenAI">>)
            /\ ~req[r].parsed.ok
            /\ req[r].result = Undefined
            /\ \A i \in 1..Len(req[r].console) :
                    req[r].console[i].tag # "JSON parse error:"

C11_Witness ==
    \E r \in Req :
        /\ NoResponseCase(req[r])
        /\ req[r].response.defined
        /\ req[r].pc = "rejected"

----------------------------------------------------------------------------
(* The fallback generator and the identity check, as pure functions.       *)

FallbackCalled == pure.fn = "getFallbackRecommendations"

\* C12: getFallbackRecommendations puts the key of a flag into
\* conditionalInsights exactly when the flag is true in the context; a key
\* that is present holds a list of exactly three items, and the key of a
\* false flag is absent from the mapping altogether.
C12_FallbackInsightsFollowFlags ==
    FallbackCalled =>
        LET insights == GetProp(pure.value, K("conditionalInsights")) IN
        /\ insights.t = "obj"
        /\ \A i \in 1..Len(insights.o) : \E f \in Flags : insights.o[i].k = K(f)
        /\ \A f \in Flags :
              /\ HasKey(insights, K(f)) <=> pure.context[f]
              /\ HasKey(insights, K(f)) => IsList(GetProp(insights, K(f)), {3})

C12_Witness ==
    /\ FallbackCalled
    /\ pure.context.ppa /\ ~pure.context.genAI /\ pure.context.cloudCostConcerns
    /\ Len(GetProp(pure.value, K("conditionalInsights")).o) = 2

\* C13: getFallbackRecommendations returns for every context, whatever its
\* flags and its company name, a record with exactly five unit metrics and
\* exactly three conversation starters.
C13_FallbackHasFiveMetricsThreeStarters ==
    FallbackCalled =>
        /\ pure.value.t = "obj"
        /\ IsList(GetProp(pure.value, K("unitMetrics")), {5})
        /\ IsList(GetProp(pure.value, K("conversationStarters")), {3})

C13_Witness ==
    /\ FallbackCalled
    /\ pure.context.companyName = "Globex, Inc."
    /\ \A f \in Flags : pure.context[f]
    /\ Len(GetProp(pure.value, K("unitMetrics")).a) = 5

ValidateCalled == pure.fn = "validateCompanyUrlMatch"

\* a string of the form with nothing but whitespace in it
Blank(s) == \A i \in 1..Len(Chars(s)) : Chars(s)[i] = " "

\* where the words of a text start: a character that is not a space at
\* the start of the text or after a space
WordStarts(cs) ==
    {i \in 1..Len(cs) : cs[i] # " " /\ (i = 1 \/ cs[i - 1] = " ")}

\* the word of a text that starts at position i
WordAt(cs, i) ==
    SubSeq(cs, i, CHOOSE j \in i..Len(cs) :
                     /\ \A k \in i..j : cs[k] # " "
                     /\ (j = Len(cs) \/ cs[j + 1] = " "))

\* the first characters of the words of a text, in the order of the words
AcronymOf(cs) ==
    [n \in 1..Cardinality(WordStarts(cs)) |->
        cs[CHOOSE i \in WordStarts(cs) :
              Cardinality({j \in WordStarts(cs) : j <= i}) = n]]

RuleEqual(name, label) == name = label

RuleContains(name, label) ==
    /\ Len(name) >= 3
    /\ Len(label) >= 3
    /\ (Includes(name, label) \/ Includes(label, name))

RuleWord(original, label) ==
    \E i \in WordStarts(original) :
        LET word == SelectSeq(WordAt(original, i), IsAlnum) IN
        Len(word) >= 3 /\ Includes(label, word)

RuleAcronym(original, label) ==
    /\ Cardinality(WordStarts(original)) > 1
    /\ Len(AcronymOf(original)) >= 2
    /\ Includes(label, AcronymOf(original))

\* C14: for a name and an address that are both not blank,
\* validateCompanyUrlMatch returns true exactly when the normalized name
\* equals the normalized label of the address, or both are at least three
\* long and one contains the other, or a word of the name of at least
\* three alphanumerics occurs in the label, or the name has several words
\* and their initials, at least two, occur in the label; 'Acme Corp' does
\* not match 'https://www.globex.com', 'International Business Machines'
\* matches 'https://ibm.com'.
C14_MatchIffOneOfFourRules ==
    (ValidateCalled /\ ~Blank(pure.companyName) /\ ~Blank(pure.websiteUrl)) =>
        LET name == cleanCompanyName(pure.companyName)
            label == cleanUrl(pure.websiteUrl)
            original == toLowerCase(Chars(pure.companyName))
        IN /\ pure.verdict <=> \/ RuleEqual(name, label)
                               \/ RuleContains(name, label)
                               \/ RuleWord(original, label)
                               \/ RuleAcronym(original, label)
           /\ (pure.companyName = "Acme Corp"
               /\ pure.websiteUrl = "https://www.globex.com") => ~pure.verdict
           /\ (pure.companyName = "International Business Machines"
               /\ pure.websiteUrl = "https://ibm.com") => pure.verdict

C14_Witness ==
    /\ ValidateCalled
    /\ pure.companyName = "International Business Machines"
    /\ pure.websiteUrl = "https://ibm.com"
    /\ pure.verdict
    /\ ~RuleContains(cleanCompanyName(pure.companyName), cleanUrl(pure.websiteUrl))

\* C15: validateCompanyUrlMatch returns true whenever the company name or
\* the website address is empty or holds only whitespace.
C15_BlankInputsPass ==
    (ValidateCalled /\ (Blank(pure.companyName) \/ Blank(pure.websiteUrl))) =>
        pure.verdict

C15_Witness ==
    /\ ValidateCalled
    /\ pure.companyName = "   "
    /\ pure.websiteUrl = "https://www.globex.com"
    /\ pure.verdict

----------------------------------------------------------------------------
(* The App in front of the service.                                        *)

\* C16: once handleSubmit has shown the mismatch warning for a name and an
\* address that validateCompanyUrlMatch rejects, pressing Proceed Anyway
\* and submitting again, the fields untouched, makes the request reach
\* generateRecommendations.
C16_ProceedAnywayReachesService ==
    [][(app.last = "proceedAnyway" /\ app'.last = "handleSubmit") =>
          /\ app'.outcome \in {"pending", "resolved", "rejected"}
          /\ app'.request # "none"
          /\ req'[app'.request].context = app.formData]_vars

\* the latest handleSubmit has called generateRecommendations, the call
\* has failed, and nothing has happened in the App since
SubmitFailed == app.last = "handleSubmit" /\ app.outcome = "rejected"

\* the failure of a request is the credential error of line 153 (or its
\* twin of line 40)
IsCredentialError(error) == error \in {CredentialError, GetOpenAIError}

\* C19: when generateRecommendations fails the App shows the error modal,
\* with the message 'API configuration error: ...' if the failure is the
\* credential error and with 'Error generating recommendations: ...' for
\* every other kind of error (intelligence gathering, provider response,
\* parse, schema validation).
C19_MessageFollowsErrorKind ==
    SubmitFailed =>
        /\ app.showErrorModal
        /\ app.errorMessage # <<>>
        /\ Head(app.errorMessage) =
              IF IsCredentialError(req[app.request].error)
              THEN "API configuration error:"
              ELSE "Error generating recommendations:"

----------------------------------------------------------------------------
(* The prompt and the flags.                                               *)

\* the heading of the instruction paragraph of a flag
FlagParagraph(f) ==
    CASE f = "ppa" -> "- **PPA Discussion Starters**: 3 strategic questions for"
      [] f = "genAI" -> "- **GenAI-Specific FinOps Insights**: 3 strategic questions for"
      [] f = "cloudCostConcerns" ->
            "- **Cloud Cost Risk Signals**: 3 strategic questions for"

\* how many braces are open at position i of a text
BraceDepth(text, i) ==
    Cardinality({j \in 1..(i - 1) : text[j] = "{"})
    - Cardinality({j \in 1..(i - 1) : text[j] = "}"})

\* the keys written in a text at a depth of braces: a quoted token with a
\* colon after it
KeysAt(text, depth) ==
    {text[i + 1] : i \in {j \in 1..(Len(text) - 3) :
                            /\ text[j] = DQ /\ text[j + 2] = DQ /\ text[j + 3] = ":"
                            /\ BraceDepth(text, j) = depth}}

\* C17: for each of the flags ppa, genAI and cloudCostConcerns the prompt
\* holds the instruction paragraph of the flag, and the schema's
\* conditionalInsights mapping holds its key, exactly when the flag is true
\* in the context, whatever the other flags are; the top-level keys of the
\* schema are always unitMetrics, conversationStarters, conditionalInsights.
C17_PromptFollowsFlags ==
    \A r \in Req :
        req[r].prompt # <<>> =>
            LET prompt == req[r].prompt
                schema == SchemaOf(prompt)
                mapping == InsightsMappingOf(schema)
            IN /\ \A f \in Flags :
                     /\ Has(prompt, FlagParagraph(f)) <=> req[r].context[f]
                     /\ f \in KeysAt(mapping, 0) <=> req[r].context[f]
               /\ KeysAt(mapping, 0) \subseteq Flags
               /\ KeysAt(schema, 1) =
                     {"unitMetrics", "conversationStarters", "conditionalInsights"}

C17_Witness ==
    \E r \in Req :
        /\ req[r].prompt # <<>>
        /\ ~req[r].context.ppa /\ req[r].context.genAI
        /\ ~req[r].context.cloudCostConcerns
        /\ KeysAt(InsightsMappingOf(SchemaOf(req[r].prompt)), 0) = {"genAI"}
        /\ Has(req[r].prompt, FlagParagraph("genAI"))

----------------------------------------------------------------------------
(* The provider-client handle.                                             *)

\* C18: whatever the number of requests and however they interleave at
\* their awaits, the handle of the primary provider is constructed at most
\* once: a step constructs it only when the static handle is null, and a
\* handle that is set is never replaced and never reset.
C18_HandleConstructedAtMostOnce ==
    [][/\ constructed' <= 1
       /\ constructed' # constructed =>
             openai = "null" /\ openai' = "client" /\ constructed' = constructed + 1
       /\ openai = "client" => openai' = "client" /\ constructed' = constructed
       /\ openai' = "client" => constructed' = 1]_vars

\* both requests have gone through getOpenAI, the second while the first
\* was still waiting for the provider
C18_Witness ==
    /\ \A r \in Req : Has(req[r].trace, "primary.call")
    /\ \E r \in Req : req[r].pc = "completing"
    /\ openai = "client"
    /\ constructed = 1

----------------------------------------------------------------------------
(* Fence stripping.                                                        *)

\* the provider has answered request r with text that is structured data
\* as it stands
AnsweredWithData(r) ==
    /\ Has(req[r].trace, "primary.return")
    /\ req[r].response.defined
    /\ JSONParse(req[r].response.text).ok

\* C20: stripping removes only the fence markup around the payload: when
\* the provider's text is structured data as it stands, the value that
\* generateRecommendations parses is the parse of that text, and the same
\* text between a leading fence with the json tag and a trailing fence
\* parses to the same value.
C20_FenceStrippingKeepsPayload ==
    \A r \in Req :
        AnsweredWithData(r) =>
            /\ req[r].parsed = [ok |-> TRUE, val |-> JSONParse(req[r].response.text).val]
            /\ JSONParse(CleanResponse(Fenced(req[r].response.text)))
                  = JSONParse(req[r].response.text)

----------------------------------------------------------------------------
(* The outcome of a submit.                                                *)

Pending(q) == q.pc \in {"gathering", "analyzing", "completing"}
Settled(q) == q.pc \in {"resolved", "rejected"}

\* this step settles the call that the latest handleSubmit made
SettlesSubmit ==
    /\ app'.request # "none"
    /\ ~Settled(req[app'.request])
    /\ Settled(req'[app'.request])

\* C21: a submit that starts a generation sets isGenerating back to false
\* in the end, when generateRecommendations settles, and then one of two
\* things has happened: on success recommendations is the returned value
\* and the submit has not opened the error modal; on failure the error
\* modal is open with a message and recommendations is as it was.
C21_GenerationEndsOneOfTwoWays ==
    /\ [][/\ app'.isGenerating <=>
                (app'.request # "none" /\ Pending(req'[app'.request]))
          /\ SettlesSubmit =>
                LET q == req'[app'.request] IN
                /\ ~app'.isGenerating
                /\ q.pc = "resolved" =>
                      /\ app'.recommendations = q.result
                      /\ app'.showErrorModal = app.showErrorModal
                      /\ app'.errorMessage = app.errorMessage
                /\ q.pc = "rejected" =>
                      /\ app'.showErrorModal
                      /\ app'.errorMessage # <<>>
                      /\ app'.recommendations = app.recommendations]_vars
    /\ app.isGenerating ~> ~app.isGenerating

\* a first submit has failed and a second has succeeded
C21_Witness ==
    /\ req["r1"].pc = "rejected"
    /\ Has(req["r1"].trace, "primary.call")
    /\ app.request = "r2"
    /\ req["r2"].pc = "resolved"
    /\ ~app.isGenerating
    /\ app.recommendations = req["r2"].result
    /\ app.showErrorModal

----------------------------------------------------------------------------
(* A submit with a blank field.                                            *)

\* this step is handleSubmit running on the form as it stands
SubmitStep == FormVisible(app) /\ app'.last = "handleSubmit" /\ app' # app

\* this step calls generateRecommendations as request r
CallStep(r) == req[r].pc = "idle" /\ req'[r].pc # "idle"

\* C22: the App calls generateRecommendations only with a company name and
\* a website address that are both not blank once trimmed; a submit with
\* either of them blank opens the error modal, makes no call, leaves
\* isGenerating false and leaves recommendations as it was.
C22_BlankSubmitMakesNoCall ==
    [][/\ \A r \in Req :
             CallStep(r) =>
                /\ req'[r].context = app.formData
                /\ ~Blank(app.formData.companyName)
                /\ ~Blank(app.formData.websiteUrl)
       /\ (SubmitStep /\ (\/ Blank(app.formData.companyName)
                          \/ Blank(app.formData.websiteUrl))) =>
             /\ app'.showErrorModal
             /\ app'.errorMessage = BlankMessage
             /\ req' = req
             /\ ~app'.isGenerating
             /\ app'.recommendations = app.recommendations]_vars

\* the form was submitted with a name and a blank address
C22_Witness ==
    /\ app.last = "handleSubmit"
    /\ app.outcome = "blank"
    /\ app.formData.companyName = "Acme Corp"
    /\ app.formData.websiteUrl = " "
    /\ app.showErrorModal
    /\ ~app.isGenerating

=============================================================================
